---- MODULE Spec2Model ----
(***************************************************************************)
(* Streaming pipeline of ConsciousMachines.github.io: a worker (worker.js) *)
(* generates frames and posts them to the page (app.js), which queues      *)
(* them, uploads them into a ring of BUFFER_SIZE textures and crossfades   *)
(* between consecutive slots.  The page answers with queue_has_space       *)
(* messages, which the worker counts as credits.                           *)
(*                                                                         *)
(* One action is one event-loop task of the page or of the worker, with    *)
(* the promise continuations (microtasks) it triggers.  Message channels   *)
(* between the two contexts are FIFO.                                      *)
(***************************************************************************)
EXTENDS Integers, Sequences, FiniteSets

\* ------------------------------------------------------------ constants

\* app.js: const BUFFER_SIZE = 3 (same value in worker.js)
BUFFER_SIZE == 3

\* app.js: const MAX_QUEUE_SIZE = BUFFER_SIZE
MAX_QUEUE_SIZE == BUFFER_SIZE

\* app.js: const HP = 128 (rows of one tile)
HP == 128

\* app.js: const MAX_HG = 4
MAX_HG == 4

\* app.js: let steps = 10
InitSteps == 10

\* grid heights calculateGridSize yields (1..MAX_HG), the extremes
GridHeights == {1, MAX_HG}

\* ------------------------------------------------------------ bounds

\* frames one worker generates in a session of the specification Spec
MaxFrames == 10

\* sessions (the initial one and those started by restartWithGridSize)
MaxSessions == 2

\* frames one worker generates in a session of the specification SpecSteps
SliderFrames == 5

\* input events of the steps slider in a run of SpecSteps
MaxSlides == 1

\* frames the worker generates in a run of SpecErr
ErrFrames == 4

\* 'error' messages the worker posts in a run of SpecErr
MaxErrors == 1

\* frames the worker generates in a run of SpecDataset
DatasetFrames == 5

\* load_dataset messages posted to the worker in a run of SpecDataset
MaxLoads == 1

\* frames one worker generates in a session of the specification SpecRestart
RestartFrames == 5

\* largest value of the steps slider
MaxSteps == 12

\* texture heights below HP that the upload functions are applied to
MaxRows == 12

\* ------------------------------------------------------------ state

VARIABLES
    \* page (app.js)
    imageQueue,        \* frames put and not yet got
    queueWaiters,      \* suspended queueGet callers, oldest first
    pendingUpload,     \* the progressive upload, or NoUpload
    t,                 \* crossfade progress, in units of 1/TUnit
    tPure,             \* t is 0 plus additions of the present dt only
    currTexIdx,
    nextTexIdx,
    steps,
    animationRunning,
    isReady,
    HG,
    animPc,            \* animate chain: "raf" (scheduled) or "await" (in queueGet)
    restartPc,         \* restartWithGridSize: 0 idle, else the newHG it sleeps with
    gl,                \* the WebGL 2 context was obtained
    worker,            \* a Worker has been created
    textures,          \* length of the array textures
    pbos,              \* length of the array pbos
    \* worker (worker.js)
    slotIdx,
    isInitialized,
    initPc,            \* init() running (awaiting tf.ready / fetch)
    queueSpaceAvailable,
    queueSpaceWaiters, \* results of the loops suspended in waitToSend
    generating,        \* continuousGenerate loops inside generateImage
    \* channels
    toWorker,          \* page -> worker messages in transit
    toMain,            \* worker -> page messages in transit
    \* history of the current session
    session,
    frameCap,          \* frames the generator yields in a session
    nGenerated,        \* frames generateImage has returned
    posted,            \* frames of the 'image' messages the worker has posted
    spaceRecv,         \* queue_has_space messages the worker has handled
    spaceSent,         \* queue_has_space messages the page has posted
    started,           \* start_generating handled by the worker
    consumed,          \* frames returned by queueGet, in order
    retired,           \* seq of the frames fully uploaded
    filled,            \* frames fillBuffer has uploaded
    nSlides,           \* input events of the steps slider so far
    chunk,             \* rows of the last uploadTextureChunkWithPBO call
    violation,         \* 'Pending upload not finished' was logged
    errorSeen,         \* the page has handled an 'error' message of this worker
    nErrors,           \* 'error' messages the workers have posted
    nLoads,            \* load_dataset messages posted to the worker
    probe,             \* a page state that functions of app.js are applied to
    lastOp             \* what the last task did

pageVars == <<imageQueue, queueWaiters, pendingUpload, t, tPure, currTexIdx,
              nextTexIdx, steps, animationRunning, isReady, HG, animPc, restartPc,
              gl, worker, textures, pbos, nSlides, chunk, violation, errorSeen, probe>>
workerVars == <<slotIdx, isInitialized, initPc, queueSpaceAvailable,
                queueSpaceWaiters, generating, nErrors, nLoads>>
histVars == <<session, frameCap, nGenerated, posted, spaceRecv, spaceSent,
              started, consumed, retired, filled, lastOp>>
vars == <<pageVars, workerVars, toWorker, toMain, histVars>>

\* ------------------------------------------------------------ values

RECURSIVE gcd(_, _)
gcd(a, b) == IF b = 0 THEN a ELSE gcd(b, a % b)

RECURSIVE lcmUpTo(_)
lcmUpTo(n) == IF n <= 1 THEN 1 ELSE (lcmUpTo(n - 1) * n) \div gcd(lcmUpTo(n - 1), n)

\* t is kept as a multiple of 1/TUnit: dt_base = 1.0 is TUnit, and every
\* dt = dt_base / steps with steps in 1..MaxSteps is a whole number of units
TUnit == lcmUpTo(MaxSteps)

\* app.js: dt = dt_base / steps
dtOf(s) == TUnit \div s

dt == dtOf(steps)

\* app.js: g_tex_H = HP * HG
g_tex_H == HP * HG

\* The numbers of app.js are IEEE-754 doubles.  t after k additions of
\* dt = 1/steps differs from k/steps by rounding, which decides a comparison
\* or a floor only where the exact value is on the boundary.  For steps in
\* TableSteps and t summed from the present dt only, the outcome is tabled:
\* FloatAbove holds the steps for which steps additions of 1/steps exceed
\* 1.0, FloatFloorLow the <<steps, k>> for which Math.floor((1.0 - t) / dt)
\* after k additions is steps - k - 1.  Elsewhere both outcomes are allowed.
TableSteps == 1..12

FloatAbove == {9, 11}

FloatFloorLow ==
    {<<5, 2>>, <<5, 3>>, <<5, 4>>, <<9, 6>>, <<9, 7>>, <<9, 8>>, <<9, 9>>,
     <<10, 3>>, <<10, 4>>, <<11, 2>>, <<11, 5>>, <<11, 6>>, <<11, 7>>,
     <<11, 8>>, <<11, 9>>, <<11, 10>>, <<11, 11>>, <<12, 10>>, <<12, 11>>}

\* the roundings a double operation on the boundary can take
Rounding == [above : BOOLEAN, low : BOOLEAN]

NoRounding == [above |-> FALSE, low |-> FALSE]

NoUpload ==
    [active |-> FALSE, slotIdx |-> 0, pboIdx |-> 0, rowsUploaded |-> 0, seq |-> 0]

NoChunk == [seq |-> -1, from |-> 0, rows |-> 0]

NoProbe == [case |-> "none"]

\* a message of the session ses (the worker it is posted to or by)
MsgOf(type, ses) == [type |-> type, slotIdx |-> 0, seq |-> 0, ses |-> ses]

Msg(type) == MsgOf(type, session)

ImageMsg(f) ==
    [type |-> "image", slotIdx |-> f.slotIdx, seq |-> f.seq, ses |-> f.ses]

Frame(m) == [slotIdx |-> m.slotIdx, seq |-> m.seq, ses |-> m.ses]

Min(a, b) == IF a < b THEN a ELSE b

Max(a, b) == IF a > b THEN a ELSE b

\* number of 'image' messages the worker has posted in the session
nPosted == Len(posted)

\* ------------------------------------------------------------ page: queue

\* The page state the queue and the consumers work on, as one record.
Page == [imageQueue |-> imageQueue, queueWaiters |-> queueWaiters,
         pendingUpload |-> pendingUpload, t |-> t, tPure |-> tPure,
         currTexIdx |-> currTexIdx, nextTexIdx |-> nextTexIdx,
         steps |-> steps, g_tex_H |-> g_tex_H,
         animationRunning |-> animationRunning,
         animPc |-> animPc, toWorker |-> toWorker, spaceSent |-> spaceSent,
         consumed |-> consumed, retired |-> retired, filled |-> filled,
         chunk |-> chunk, violation |-> violation,
         lastOp |-> lastOp]

\* worker.postMessage({ type: 'queue_has_space' })
notifySpace(M) ==
    [M EXCEPT !.toWorker = Append(@, Msg("queue_has_space")),
              !.spaceSent = @ + 1]

\* the test never passing: no queue_has_space is posted
queueHasSpaceNever(M) == FALSE

\* the test both queuePut and queueGet make before notifying the worker
queueHasSpace(M) == Len(M.imageQueue) < MAX_QUEUE_SIZE

\* queueGetNow taking the newest item (pop) where the code takes the oldest
queueGetNowLast(M) ==
    LET n  == Len(M.imageQueue)
        M1 == [M EXCEPT !.imageQueue = SubSeq(@, 1, n - 1),
                        !.consumed = Append(@, M.imageQueue[n])]
    IN  IF Len(M1.imageQueue) < MAX_QUEUE_SIZE
        THEN [M1 EXCEPT !.toWorker = Append(@, Msg("queue_has_space")),
                        !.spaceSent = @ + 1]
        ELSE M1

\* queueGet, the branch imageQueue.length > 0: shift and notify
queueGetNow(M) ==
    LET M1 == [M EXCEPT !.imageQueue = Tail(@),
                        !.consumed = Append(@, Head(M.imageQueue))]
    IN  IF queueHasSpace(M1) THEN notifySpace(M1) ELSE M1

\* queueGet, the branch that waits: queueWaiters.push(resolve)
queueGetWait(M, w) == [M EXCEPT !.queueWaiters = Append(@, w)]

\* uploadTextureComplete: the whole frame is in its slot when it returns
uploadTextureComplete(M, f) ==
    [M EXCEPT !.retired = @ \cup {f.seq}, !.filled = @ + 1]

\* fillBuffer from iteration i on: get, upload, until BUFFER_SIZE frames
RECURSIVE fillBuffer(_, _)
fillBuffer(M, i) ==
    IF i >= BUFFER_SIZE
    THEN [M EXCEPT !.animationRunning = TRUE]
    ELSE IF Len(M.imageQueue) > 0
         THEN fillBuffer(uploadTextureComplete(queueGetNow(M), Head(M.imageQueue)),
                         i + 1)
         ELSE queueGetWait(M, [kind |-> "fill", i |-> i])

\* animate after its await queueGet(), staging every upload in PBO 0
animateAfterGetPboZero(M, f, op) ==
    [M EXCEPT !.pendingUpload = [active |-> TRUE, slotIdx |-> f.slotIdx,
                                 pboIdx |-> 0, rowsUploaded |-> 0,
                                 seq |-> f.seq],
              !.t = @ + dtOf(M.steps),
              !.animPc = "raf",
              !.lastOp = op]

\* animate after its await queueGet(): new pendingUpload, render, t += dt,
\* requestAnimationFrame
animateAfterGet(M, f, op) ==
    [M EXCEPT !.pendingUpload = [active |-> TRUE, slotIdx |-> f.slotIdx,
                                 pboIdx |-> f.slotIdx, rowsUploaded |-> 0,
                                 seq |-> f.seq],
              !.t = @ + dtOf(M.steps),
              !.animPc = "raf",
              !.lastOp = op]

\* the continuation of the waiter w that queuePut resolved with frame f
resumeWaiter(M, w, f) ==
    IF w.kind = "fill"
    THEN [fillBuffer(uploadTextureComplete(M, f), w.i + 1) EXCEPT !.lastOp = "putFill"]
    ELSE animateAfterGet(M, f, "putAnim")

\* queuePut(item) without the test of queueWaiters: the item stays queued
queuePutNoWake(M, item) ==
    LET M1 == [M EXCEPT !.imageQueue = Append(@, item)]
        M3 == IF queueHasSpace(M1) THEN notifySpace(M1) ELSE M1
    IN  [M3 EXCEPT !.lastOp = "putQueued"]

\* queuePut(item) resolving the oldest waiter without queueWaiters.shift()
queuePutKeepWaiter(M, item) ==
    LET M1 == [M EXCEPT !.imageQueue = Append(@, item)]
        hit == Len(M1.queueWaiters) > 0
        M2 == IF hit
              THEN [M1 EXCEPT !.imageQueue = Tail(@),
                              !.consumed = Append(@, Head(M1.imageQueue))]
              ELSE M1
        M3 == IF queueHasSpace(M2) THEN notifySpace(M2) ELSE M2
    IN  IF hit
        THEN resumeWaiter(M3, Head(M1.queueWaiters), Head(M1.imageQueue))
        ELSE [M3 EXCEPT !.lastOp = "putQueued"]

\* queuePut(item), followed by the continuation of the waiter it resolved
queuePut(M, item) ==
    LET M1 == [M EXCEPT !.imageQueue = Append(@, item)]
        hit == Len(M1.queueWaiters) > 0
        M2 == IF hit
              THEN [M1 EXCEPT !.queueWaiters = Tail(@),
                              !.imageQueue = Tail(@),
                              !.consumed = Append(@, Head(M1.imageQueue))]
              ELSE M1
        M3 == IF queueHasSpace(M2) THEN notifySpace(M2) ELSE M2
    IN  IF hit
        THEN resumeWaiter(M3, Head(M1.queueWaiters), Head(M1.imageQueue))
        ELSE [M3 EXCEPT !.lastOp = "putQueued"]

\* ------------------------------------------------------------ page: upload

\* t is k additions of the present dt, for a steps value that is tabled
tabled(M) == M.tPure /\ M.steps \in TableSteps

\* the roundings animate can meet in page state M
Roundings(M) == IF tabled(M) THEN {NoRounding} ELSE Rounding

\* Math.floor((1.0 - t) / dt)
floorFrames(M, r) ==
    LET d   == dtOf(M.steps)
        q   == (TUnit - M.t) \div d
        low == IF tabled(M) THEN <<M.steps, M.t \div d>> \in FloatFloorLow
                            ELSE r.low
    IN  IF (TUnit - M.t) % d = 0 /\ low THEN q - 1 ELSE q

\* framesLeft with Math.max(2, ...) where the code has Math.max(1, ...)
framesLeftTwo(M, r) == Max(2, floorFrames(M, r))

\* framesLeft of processProgressiveUpload
framesLeft(M, r) == Max(1, floorFrames(M, r))

\* rowsToUpload without the + 1
rowsToUploadNoBias(M, r) ==
    LET rowsLeft == M.g_tex_H - M.pendingUpload.rowsUploaded
    IN  Min(rowsLeft, rowsLeft \div framesLeft(M, r))

\* rowsToUpload without the Math.min(rowsLeft, ...)
rowsToUploadNoMin(M, r) ==
    ((M.g_tex_H - M.pendingUpload.rowsUploaded) \div framesLeft(M, r)) + 1

\* rowsToUpload of processProgressiveUpload
rowsToUpload(M, r) ==
    LET rowsLeft == M.g_tex_H - M.pendingUpload.rowsUploaded
    IN  Min(rowsLeft, (rowsLeft \div framesLeft(M, r)) + 1)

\* processProgressiveUpload without its first line, the test of pendingUpload
processProgressiveUploadNoTest(M, r) ==
    LET p  == M.pendingUpload
        n  == rowsToUpload(M, r)
        M1 == [M EXCEPT !.chunk = [seq |-> p.seq, from |-> p.rowsUploaded, rows |-> n],
                        !.pendingUpload.rowsUploaded = @ + n]
    IN  IF M1.pendingUpload.rowsUploaded >= M.g_tex_H
        THEN [M1 EXCEPT !.pendingUpload = NoUpload, !.retired = @ \cup {p.seq}]
        ELSE M1

\* processProgressiveUpload without its last lines, pendingUpload = null
processProgressiveUploadKeep(M, r) ==
    IF ~M.pendingUpload.active
    THEN M
    ELSE LET p == M.pendingUpload
             n == rowsToUpload(M, r)
         IN  [M EXCEPT !.chunk = [seq |-> p.seq, from |-> p.rowsUploaded, rows |-> n],
                       !.pendingUpload.rowsUploaded = @ + n]

\* processProgressiveUpload: one chunk of rows into the slot; the upload is
\* dropped once all rows are in
processProgressiveUpload(M, r) ==
    IF ~M.pendingUpload.active
    THEN M
    ELSE LET p  == M.pendingUpload
             n  == rowsToUpload(M, r)
             M1 == [M EXCEPT !.chunk = [seq |-> p.seq, from |-> p.rowsUploaded,
                                        rows |-> n],
                             !.pendingUpload.rowsUploaded = @ + n]
         IN  IF M1.pendingUpload.rowsUploaded >= M.g_tex_H
             THEN [M1 EXCEPT !.pendingUpload = NoUpload, !.retired = @ \cup {p.seq}]
             ELSE M1

\* ------------------------------------------------------------ page: animate

\* animate: t > 1.0
exceedsOne(M, r) ==
    \/ M.t > TUnit
    \/ /\ M.t = TUnit
       /\ IF tabled(M) THEN M.steps \in FloatAbove ELSE r.above

\* the rotation without t = 0.0
rotateKeepT(M) ==
    [M EXCEPT !.currTexIdx = (@ + 1) % BUFFER_SIZE,
              !.nextTexIdx = (@ + 1) % BUFFER_SIZE]

\* the rotation advancing currTexIdx only
rotateCurrOnly(M) ==
    [M EXCEPT !.t = 0, !.tPure = TRUE,
              !.currTexIdx = (@ + 1) % BUFFER_SIZE]

\* the rotation of animate: t = 0, both indices advance
rotate(M) ==
    [M EXCEPT !.t = 0, !.tPure = TRUE,
              !.currTexIdx = (@ + 1) % BUFFER_SIZE,
              !.nextTexIdx = (@ + 1) % BUFFER_SIZE]

\* animate: if (pendingUpload !== null) console.error(...)
pendingCheck(M) ==
    IF M.pendingUpload.active THEN [M EXCEPT !.violation = TRUE] ELSE M

\* animate from the body of if (t > 1.0) on: rotation, check, queueGet and,
\* when a frame is queued, the rest of the call
transition(M) ==
    LET M2 == pendingCheck(rotate(M))
    IN  IF Len(M2.imageQueue) > 0
        THEN animateAfterGet(queueGetNow(M2), Head(M2.imageQueue), "rotate")
        ELSE [queueGetWait(M2, [kind |-> "anim", i |-> 0])
                 EXCEPT !.animPc = "await", !.lastOp = "suspend"]

\* one animate() call, up to its end or to its suspension in queueGet
animateTick(M, r) ==
    IF ~M.animationRunning
    THEN [M EXCEPT !.lastOp = "idle"]
    ELSE LET M1 == IF M.pendingUpload.active
                   THEN processProgressiveUpload(M, r) ELSE M
         IN  IF exceedsOne(M1, r)
             THEN transition(M1)
             ELSE [M1 EXCEPT !.t = @ + dtOf(M.steps), !.lastOp = "tick"]

\* the page variables take the values of record M
SetPage(M) ==
    /\ imageQueue' = M.imageQueue
    /\ queueWaiters' = M.queueWaiters
    /\ pendingUpload' = M.pendingUpload
    /\ t' = M.t
    /\ tPure' = M.tPure
    /\ currTexIdx' = M.currTexIdx
    /\ nextTexIdx' = M.nextTexIdx
    /\ animationRunning' = M.animationRunning
    /\ animPc' = M.animPc
    /\ toWorker' = M.toWorker
    /\ spaceSent' = M.spaceSent
    /\ consumed' = M.consumed
    /\ retired' = M.retired
    /\ filled' = M.filled
    /\ chunk' = M.chunk
    /\ violation' = M.violation
    /\ lastOp' = M.lastOp

\* requestAnimationFrame callback
animate ==
    /\ animPc = "raf"
    /\ \E r \in Roundings(Page) : SetPage(animateTick(Page, r))
    /\ UNCHANGED <<gl, worker, textures, pbos, steps, isReady, HG, restartPc, nSlides, errorSeen, probe, workerVars, toMain, session,
                   frameCap, nGenerated, posted, spaceRecv, started>>

\* worker.onmessage of the page, case 'image'
onImage ==
    /\ toMain # <<>>
    /\ Head(toMain).type = "image"
    /\ toMain' = Tail(toMain)
    /\ SetPage(queuePut(Page, Frame(Head(toMain))))
    /\ UNCHANGED <<gl, worker, textures, pbos, steps, isReady, HG, restartPc, nSlides, errorSeen, probe, workerVars, session,
                   frameCap, nGenerated, posted, spaceRecv, started>>

\* worker.onmessage of the page, case 'ready': start_generating, fillBuffer()
onReady ==
    /\ toMain # <<>>
    /\ Head(toMain).type = "ready"
    /\ toMain' = Tail(toMain)
    /\ isReady' = TRUE
    /\ SetPage([fillBuffer([Page EXCEPT !.toWorker = Append(@, Msg("start_generating"))], 0)
                   EXCEPT !.lastOp = "ready"])
    /\ UNCHANGED <<gl, worker, textures, pbos, steps, HG, restartPc, nSlides, errorSeen, probe, workerVars, session,
                   frameCap, nGenerated, posted, spaceRecv, started>>

\* worker.onmessage of the page, case 'error': console.error and alert
onError ==
    /\ toMain # <<>>
    /\ Head(toMain).type = "error"
    /\ toMain' = Tail(toMain)
    /\ errorSeen' = TRUE
    /\ lastOp' = "error"
    /\ UNCHANGED <<gl, worker, textures, pbos, imageQueue, queueWaiters, pendingUpload, t, tPure, currTexIdx,
                   nextTexIdx, steps, animationRunning, isReady, HG, animPc,
                   restartPc, nSlides, chunk, violation, probe, workerVars,
                   toWorker, session, frameCap, nGenerated, posted, spaceRecv,
                   spaceSent, started, consumed, retired, filled>>

\* values the steps slider is moved to
SliderValues == {1, 9, MaxSteps}

\* input event of the steps slider: steps = parseInt(value), dt = dt_base / steps
setSteps ==
    /\ nSlides < MaxSlides
    /\ nSlides' = nSlides + 1
    /\ \E s \in SliderValues \ {steps} : steps' = s
    /\ tPure' = (t = 0)
    /\ lastOp' = "setSteps"
    /\ UNCHANGED <<gl, worker, textures, pbos, imageQueue, queueWaiters, pendingUpload, t, currTexIdx,
                   nextTexIdx, animationRunning, isReady, HG, animPc, restartPc,
                   chunk, violation, errorSeen, probe, workerVars, toWorker, toMain,
                   session, frameCap, nGenerated, posted, spaceRecv, spaceSent,
                   started, consumed, retired, filled>>

\* ------------------------------------------------------------ page: restart

\* worker.terminate(): the messages in transit are kept
terminateKeep(channel) == channel

\* worker.terminate(): nothing in transit to or from the worker is delivered
terminate(channel) == <<>>

\* cleanupWebGL on an array of n textures or PBOs, leaving them as they are
cleanupWebGLKeep(n) == n

\* cleanupWebGL on an array of n textures or PBOs: if (!gl) return; the
\* objects are deleted and the array is emptied
cleanupWebGL(n) == IF gl THEN 0 ELSE n

\* initWebGL on an array of n textures or PBOs: BUFFER_SIZE are pushed once
\* the context ok is there
createRing(ok, n) == IF ok THEN n + BUFFER_SIZE ELSE n

\* restartWithGridSize up to its 100 ms sleep; handleResize is a listener
\* only when init() started the pipeline
restartBegin ==
    /\ animPc # "off"
    /\ restartPc = 0
    /\ session < MaxSessions
    /\ \E newHG \in GridHeights : restartPc' = newHG
    /\ animationRunning' = FALSE
    /\ lastOp' = "restartBegin"
    /\ UNCHANGED <<gl, worker, textures, pbos, imageQueue, queueWaiters, pendingUpload, t, tPure, currTexIdx,
                   nextTexIdx, steps, isReady, HG, animPc, nSlides, chunk,
                   violation, errorSeen, probe, workerVars, toWorker, toMain,
                   session, frameCap, nGenerated, posted, spaceRecv, spaceSent,
                   started, consumed, retired, filled>>

\* restartWithGridSize after the sleep: reset, cleanupWebGL, initWebGL and
\* initWorker (terminate the worker, create one, post set_grid)
restartFinish ==
    /\ restartPc # 0
    /\ restartPc' = 0
    /\ imageQueue' = <<>>
    /\ queueWaiters' = <<>>
    /\ pendingUpload' = NoUpload
    /\ t' = 0
    /\ tPure' = TRUE
    /\ currTexIdx' = 0
    /\ nextTexIdx' = 1
    /\ HG' = restartPc
    /\ isReady' = FALSE
    \* worker.terminate(): the worker and the messages in transit are gone
    /\ slotIdx' = 0
    /\ isInitialized' = FALSE
    /\ initPc' = FALSE
    /\ queueSpaceAvailable' = 0
    /\ queueSpaceWaiters' = <<>>
    /\ generating' = 0
    /\ toMain' = terminate(toMain)
    /\ toWorker' = Append(terminate(toWorker), MsgOf("set_grid", session + 1))
    /\ worker' = TRUE
    \* cleanupWebGL(), initWebGL(): getContext returns the context it has
    /\ textures' = createRing(gl, cleanupWebGL(textures))
    /\ pbos' = createRing(gl, cleanupWebGL(pbos))
    /\ session' = session + 1
    /\ nGenerated' = 0
    /\ posted' = <<>>
    /\ spaceRecv' = 0
    /\ spaceSent' = 0
    /\ started' = FALSE
    /\ consumed' = <<>>
    /\ retired' = {}
    /\ filled' = 0
    /\ lastOp' = "restartFinish"
    /\ chunk' = NoChunk
    /\ errorSeen' = FALSE
    /\ UNCHANGED <<gl, steps, animationRunning, animPc, nSlides, violation, probe,
                   nErrors, nLoads, frameCap>>

\* ------------------------------------------------------------ worker

\* waitToSend testing >= 0 where the code tests > 0
haveCreditOrZero == queueSpaceAvailable >= 0

\* waitToSend can resolve at once
haveCredit == queueSpaceAvailable > 0

\* waitToSend resolving without the decrement
takeCreditKeep == queueSpaceAvailable

\* waitToSend, the branch queueSpaceAvailable > 0
takeCredit == queueSpaceAvailable - 1

\* generateImage advancing the slot counter by two
nextSlotSkip(s) == (s + 2) % BUFFER_SIZE

\* generateImage: slotIdx = (slotIdx + 1) % BUFFER_SIZE
nextSlot(s) == (s + 1) % BUFFER_SIZE

\* the initial credits one short of the ring
initialCreditsLess == BUFFER_SIZE - 1

\* self.onmessage, case 'start_generating': the initial credits
initialCredits == BUFFER_SIZE

\* a continuousGenerate loop is running while isInitialized is false:
\* generateImage returns null at once, the await of the loop is resolved in
\* a microtask and the loop goes round, so the microtask queue never
\* empties and no message handler or continuation of the worker runs again
spinning == generating > 0 /\ ~isInitialized

\* self.onmessage, case 'set_grid': init() is started
onSetGrid ==
    /\ ~spinning
    /\ toWorker # <<>>
    /\ Head(toWorker).type = "set_grid"
    /\ toWorker' = Tail(toWorker)
    /\ initPc' = ~isInitialized
    /\ lastOp' = "setGrid"
    /\ UNCHANGED <<pageVars, nErrors, nLoads, slotIdx, isInitialized, queueSpaceAvailable,
                   queueSpaceWaiters, generating, toMain, session, frameCap,
                   nGenerated, posted, spaceRecv, spaceSent, started, consumed,
                   retired, filled>>

\* init() completes: isInitialized = true, 'ready' is posted
initDone ==
    /\ ~spinning
    /\ initPc
    /\ initPc' = FALSE
    /\ isInitialized' = TRUE
    /\ toMain' = Append(toMain, Msg("ready"))
    /\ lastOp' = "initDone"
    /\ UNCHANGED <<pageVars, nErrors, nLoads, slotIdx, queueSpaceAvailable, queueSpaceWaiters,
                   generating, toWorker, session, frameCap, nGenerated, posted,
                   spaceRecv, spaceSent, started, consumed, retired, filled>>

\* self.onmessage, case 'start_generating'
onStartGenerating ==
    /\ ~spinning
    /\ toWorker # <<>>
    /\ Head(toWorker).type = "start_generating"
    /\ toWorker' = Tail(toWorker)
    /\ queueSpaceAvailable' = initialCredits
    /\ generating' = generating + 1
    /\ started' = TRUE
    /\ lastOp' = "start"
    /\ UNCHANGED <<pageVars, nErrors, nLoads, slotIdx, isInitialized, initPc, queueSpaceWaiters,
                   toMain, session, frameCap, nGenerated, posted, spaceRecv,
                   spaceSent, consumed, retired, filled>>

\* continuousGenerate: generateImage returns a frame, then waitToSend and,
\* when it resolves at once, postMessage and the next generateImage
continuousGenerate ==
    /\ generating > 0
    /\ isInitialized
    /\ nGenerated < frameCap
    /\ LET result == [slotIdx |-> slotIdx, seq |-> nGenerated, ses |-> session]
       IN  /\ slotIdx' = nextSlot(slotIdx)
           /\ nGenerated' = nGenerated + 1
           /\ IF haveCredit
              THEN /\ queueSpaceAvailable' = takeCredit
                   /\ toMain' = Append(toMain, ImageMsg(result))
                   /\ posted' = Append(posted, result)
                   /\ lastOp' = "send"
                   /\ UNCHANGED <<queueSpaceWaiters, generating>>
              ELSE /\ queueSpaceWaiters' = Append(queueSpaceWaiters, result)
                   /\ generating' = generating - 1
                   /\ lastOp' = "wait"
                   /\ UNCHANGED <<queueSpaceAvailable, toMain, posted>>
    /\ UNCHANGED <<pageVars, nErrors, nLoads, isInitialized, initPc, toWorker, session, frameCap,
                   spaceRecv, spaceSent, started, consumed, retired, filled>>

\* self.onmessage, case 'queue_has_space': wake the oldest waiter (which then
\* posts its frame and generates again) or count one credit
onQueueHasSpace ==
    /\ ~spinning
    /\ toWorker # <<>>
    /\ Head(toWorker).type = "queue_has_space"
    /\ toWorker' = Tail(toWorker)
    /\ spaceRecv' = spaceRecv + 1
    /\ IF Len(queueSpaceWaiters) > 0
       THEN /\ queueSpaceWaiters' = Tail(queueSpaceWaiters)
            /\ toMain' = Append(toMain, ImageMsg(Head(queueSpaceWaiters)))
            /\ posted' = Append(posted, Head(queueSpaceWaiters))
            /\ generating' = generating + 1
            /\ lastOp' = "resume"
            /\ UNCHANGED queueSpaceAvailable
       ELSE /\ queueSpaceAvailable' = queueSpaceAvailable + 1
            /\ lastOp' = "credit"
            /\ UNCHANGED <<queueSpaceWaiters, toMain, posted, generating>>
    /\ UNCHANGED <<pageVars, nErrors, nLoads, slotIdx, isInitialized, initPc, session, frameCap,
                   nGenerated, spaceSent, started, consumed, retired, filled>>

\* init() throws (tf backend, fetch): 'error' is posted, isInitialized stays
\* false
initFail ==
    /\ ~spinning
    /\ initPc
    /\ nErrors < MaxErrors
    /\ nErrors' = nErrors + 1
    /\ initPc' = FALSE
    /\ toMain' = Append(toMain, Msg("error"))
    /\ lastOp' = "initFail"
    /\ UNCHANGED <<pageVars, nLoads, slotIdx, isInitialized, queueSpaceAvailable,
                   queueSpaceWaiters, generating, toWorker, session, frameCap,
                   nGenerated, posted, spaceRecv, spaceSent, started, consumed,
                   retired, filled>>

\* generateImage throws: 'error' is posted, null is returned and
\* continuousGenerate goes round its loop
generateFail ==
    /\ generating > 0
    /\ isInitialized
    /\ nErrors < MaxErrors
    /\ nErrors' = nErrors + 1
    /\ toMain' = Append(toMain, Msg("error"))
    /\ lastOp' = "generateFail"
    /\ UNCHANGED <<pageVars, nLoads, slotIdx, isInitialized, initPc, queueSpaceAvailable,
                   queueSpaceWaiters, generating, toWorker, session, frameCap,
                   nGenerated, posted, spaceRecv, spaceSent, started, consumed,
                   retired, filled>>

\* the page's worker.onmessage given a message its switch has no case for
onParamsLoaded ==
    /\ toMain # <<>>
    /\ Head(toMain).type = "params_loaded"
    /\ toMain' = Tail(toMain)
    /\ lastOp' = "paramsLoaded"
    /\ UNCHANGED <<pageVars, workerVars, toWorker, session, frameCap,
                   nGenerated, posted, spaceRecv, spaceSent, started, consumed,
                   retired, filled>>

\* the messages of a dataset switch are posted to the worker: load_dataset,
\* then the grid size its handler says it waits for
postLoadDataset ==
    /\ worker
    /\ isReady
    /\ nLoads < MaxLoads
    /\ nLoads' = nLoads + 1
    /\ toWorker' = toWorker \o <<Msg("load_dataset"), Msg("set_grid")>>
    /\ lastOp' = "postLoadDataset"
    /\ UNCHANGED <<pageVars, nErrors, slotIdx, isInitialized, initPc,
                   queueSpaceAvailable, queueSpaceWaiters, generating, toMain,
                   session, frameCap, nGenerated, posted, spaceRecv, spaceSent,
                   started, consumed, retired, filled>>

\* self.onmessage, case 'load_dataset': isInitialized = false, then
\* loadDatasetParams posts 'params_loaded' once the parameters are fetched
onLoadDataset ==
    /\ ~spinning
    /\ toWorker # <<>>
    /\ Head(toWorker).type = "load_dataset"
    /\ toWorker' = Tail(toWorker)
    /\ isInitialized' = FALSE
    /\ toMain' = IF generating > 0 THEN toMain
                 ELSE Append(toMain, Msg("params_loaded"))
    /\ lastOp' = "loadDataset"
    /\ UNCHANGED <<pageVars, nErrors, nLoads, slotIdx, initPc,
                   queueSpaceAvailable, queueSpaceWaiters, generating, session,
                   frameCap, nGenerated, posted, spaceRecv, spaceSent, started,
                   consumed, retired, filled>>

\* ------------------------------------------------------------ specification

\* init() starting everything whether or not initWebGL() returned true
startPipelineAlways(ok) == TRUE

\* init(): if (initWebGL()) { initWorker(HG, WG); animate(); ... }
startPipeline(ok) == ok

\* init() of app.js has run, getContext('webgl2') having given a context (ok)
\* or null: initWebGL and, if it returned true, initWorker (set_grid posted)
\* and the first animate(), which found animationRunning false and
\* rescheduled itself
InitOf(cap, ok) ==
    /\ imageQueue = <<>>
    /\ queueWaiters = <<>>
    /\ pendingUpload = NoUpload
    /\ t = 0
    /\ tPure = TRUE
    /\ currTexIdx = 0
    /\ nextTexIdx = 1
    /\ steps = InitSteps
    /\ animationRunning = FALSE
    /\ isReady = FALSE
    /\ HG = MAX_HG
    /\ animPc = IF startPipeline(ok) THEN "raf" ELSE "off"
    /\ restartPc = 0
    /\ gl = ok
    /\ worker = startPipeline(ok)
    /\ textures = createRing(ok, 0)
    /\ pbos = createRing(ok, 0)
    /\ slotIdx = 0
    /\ isInitialized = FALSE
    /\ initPc = FALSE
    /\ queueSpaceAvailable = 0
    /\ queueSpaceWaiters = <<>>
    /\ generating = 0
    /\ toWorker = IF startPipeline(ok) THEN <<MsgOf("set_grid", 1)>> ELSE <<>>
    /\ toMain = <<>>
    /\ session = 1
    /\ frameCap = cap
    /\ nGenerated = 0
    /\ posted = <<>>
    /\ spaceRecv = 0
    /\ spaceSent = 0
    /\ started = FALSE
    /\ consumed = <<>>
    /\ retired = {}
    /\ filled = 0
    /\ nSlides = 0
    /\ chunk = NoChunk
    /\ violation = FALSE
    /\ errorSeen = FALSE
    /\ nErrors = 0
    /\ nLoads = 0
    /\ lastOp = "init"

\* init() with the WebGL 2 context obtained
InitWith(cap) == InitOf(cap, TRUE)

Init == InitWith(MaxFrames) /\ probe = NoProbe

Next ==
    \/ animate
    \/ onImage
    \/ onReady
    \/ restartBegin
    \/ restartFinish
    \/ onSetGrid
    \/ initDone
    \/ onStartGenerating
    \/ continuousGenerate
    \/ onQueueHasSpace

Spec == Init /\ [][Next]_vars

\* ------------------------------------------------------------ functions

\* A page in Running right after the rotation that took frame BUFFER_SIZE:
\* texture height H, steps s, upload p, clock t, frames q in imageQueue.
RunningPage(H, s, p, tt, q) ==
    [imageQueue |-> q, queueWaiters |-> <<>>, pendingUpload |-> p, t |-> tt,
     tPure |-> TRUE, currTexIdx |-> 1, nextTexIdx |-> 2, steps |-> s,
     g_tex_H |-> H, animationRunning |-> TRUE, animPc |-> "raf",
     toWorker |-> <<>>, spaceSent |-> 0, consumed |-> <<>>, retired |-> {},
     filled |-> BUFFER_SIZE, chunk |-> NoChunk, violation |-> FALSE,
     lastOp |-> "init"]

\* the upload animate creates for frame BUFFER_SIZE
FreshUpload ==
    [active |-> TRUE, slotIdx |-> 0, pboIdx |-> 0, rowsUploaded |-> 0,
     seq |-> BUFFER_SIZE]

\* texture heights: small ones, and g_tex_H of the smallest and largest grid
Heights == (1..MaxRows) \cup {HP * hg : hg \in GridHeights}

\* fresh: animate runs from the call after the rotation to the next rotation;
\* idle: processProgressiveUpload is called with no upload pending;
\* forced: the rotation is entered with the upload still pending
ProbeInputs ==
    {[case |-> "fresh", n |-> 0,
      M |-> RunningPage(H, s, FreshUpload, dtOf(s), <<>>)] :
        H \in Heights, s \in 1..MaxSteps}
    \cup
    {[case |-> "idle", n |-> 0,
      M |-> RunningPage(H, s, NoUpload, k * dtOf(s), <<>>)] :
        H \in {HP * hg : hg \in GridHeights}, s \in {1, InitSteps}, k \in 0..1}
    \cup
    {[case |-> "forced", n |-> 0,
      M |-> RunningPage(H, s, [FreshUpload EXCEPT !.rowsUploaded = rows],
                        (s + 1) * dtOf(s), q)] :
        H \in {HP * hg : hg \in GridHeights}, s \in {1, InitSteps},
        rows \in {0, HP - 1},
        q \in {<<>>, <<[slotIdx |-> 1, seq |-> BUFFER_SIZE + 1, ses |-> 1]>>}}

\* animate() on the probe
applyAnimate ==
    /\ probe.case = "fresh"
    /\ probe.M.animPc = "raf"
    /\ \E r \in Roundings(probe.M) :
          probe' = [probe EXCEPT !.M = animateTick(probe.M, r), !.n = @ + 1]
    /\ UNCHANGED <<gl, worker, textures, pbos, imageQueue, queueWaiters, pendingUpload, t, tPure, currTexIdx,
                   nextTexIdx, steps, animationRunning, isReady, HG, animPc,
                   restartPc, nSlides, chunk, violation, errorSeen, workerVars,
                   toWorker, toMain, histVars>>

\* processProgressiveUpload() on the probe
applyUpload ==
    /\ probe.case = "idle"
    /\ probe.n = 0
    /\ probe' = [probe EXCEPT !.M = processProgressiveUpload(probe.M, NoRounding),
                              !.n = 1]
    /\ UNCHANGED <<gl, worker, textures, pbos, imageQueue, queueWaiters, pendingUpload, t, tPure, currTexIdx,
                   nextTexIdx, steps, animationRunning, isReady, HG, animPc,
                   restartPc, nSlides, chunk, violation, errorSeen, workerVars,
                   toWorker, toMain, histVars>>

\* the body of if (t > 1.0) of animate on the probe
applyTransition ==
    /\ probe.case = "forced"
    /\ probe.n = 0
    /\ probe' = [probe EXCEPT !.M = transition(probe.M), !.n = 1]
    /\ UNCHANGED <<gl, worker, textures, pbos, imageQueue, queueWaiters, pendingUpload, t, tPure, currTexIdx,
                   nextTexIdx, steps, animationRunning, isReady, HG, animPc,
                   restartPc, nSlides, chunk, violation, errorSeen, workerVars,
                   toWorker, toMain, histVars>>

InitApply == InitWith(0) /\ probe \in ProbeInputs

NextApply == applyAnimate \/ applyUpload \/ applyTransition

SpecApply == InitApply /\ [][NextApply]_vars

\* texture heights of the pages the steps slider is moved on
SlideHeights == {1, 2, MaxRows, HP}

\* a page right after a rotation, for every steps value
SlideInputs ==
    {[case |-> "fresh", n |-> 0,
      M |-> RunningPage(H, s, FreshUpload, dtOf(s), <<>>)] :
        H \in SlideHeights, s \in 1..MaxSteps}

\* input event of the steps slider on the probe
applySetSteps ==
    /\ probe.case = "fresh"
    /\ probe.M.animPc = "raf"
    /\ nSlides < MaxSlides
    /\ nSlides' = nSlides + 1
    /\ \E s \in SliderValues \ {probe.M.steps} :
          probe' = [probe EXCEPT !.M.steps = s, !.M.tPure = (probe.M.t = 0)]
    /\ UNCHANGED <<gl, worker, textures, pbos, imageQueue, queueWaiters,
                   pendingUpload, t, tPure, currTexIdx, nextTexIdx, steps,
                   animationRunning, isReady, HG, animPc, restartPc, chunk,
                   violation, errorSeen, workerVars, toWorker, toMain, histVars>>

\* animate() called tick after tick on a page whose slider is being moved
InitSlide == InitWith(0) /\ probe \in SlideInputs

NextSlide == applyAnimate \/ applySetSteps

SpecSlide == InitSlide /\ [][NextSlide]_vars

\* one session of the pipeline in which the worker is sent load_dataset
InitDataset == InitWith(DatasetFrames) /\ probe = NoProbe

NextDataset ==
    \/ animate
    \/ onImage
    \/ onReady
    \/ onParamsLoaded
    \/ postLoadDataset
    \/ onSetGrid
    \/ initDone
    \/ onStartGenerating
    \/ continuousGenerate
    \/ onQueueHasSpace
    \/ onLoadDataset

SpecDataset == InitDataset /\ [][NextDataset]_vars

\* one session of the pipeline with the steps slider being moved
InitSlider == InitWith(SliderFrames) /\ probe = NoProbe

NextSteps ==
    \/ animate
    \/ onImage
    \/ onReady
    \/ onSetGrid
    \/ initDone
    \/ onStartGenerating
    \/ continuousGenerate
    \/ onQueueHasSpace
    \/ setSteps

SpecSteps == InitSlider /\ [][NextSteps]_vars

\* one session of the pipeline with a worker that reports errors
InitErr == InitWith(ErrFrames) /\ probe = NoProbe

NextErr ==
    \/ animate
    \/ onImage
    \/ onReady
    \/ onError
    \/ onSetGrid
    \/ initDone
    \/ initFail
    \/ onStartGenerating
    \/ continuousGenerate
    \/ generateFail
    \/ onQueueHasSpace

SpecErr == InitErr /\ [][NextErr]_vars

\* the page from init() on, with or without a WebGL 2 context, and its
\* reconfigurations
InitRestart ==
    /\ \E ok \in BOOLEAN : InitOf(RestartFrames, ok)
    /\ probe = NoProbe

SpecRestart == InitRestart /\ [][Next]_vars

\* ------------------------------------------------------------ properties

\* credits of the producer: its counter and the queue_has_space in transit
credits ==
    queueSpaceAvailable
    + Len(SelectSeq(toWorker, LAMBDA m : m.type = "queue_has_space"))

\* frames posted by the worker and not yet fully uploaded by the page
inFlight == {f \in {posted[i] : i \in 1..Len(posted)} : f.seq \notin retired}

framesInFlight == Cardinality(inFlight)

\* frames of the 'image' messages in transit, oldest first
imagesInTransit ==
    LET images == SelectSeq(toMain, LAMBDA m : m.type = "image")
    IN  [i \in 1..Len(images) |-> Frame(images[i])]

\* tasks that execute Running tick work (upload-advance, rotation, render, t += dt)
RunningOps == {"tick", "rotate", "suspend", "putAnim"}

\* C1: once the session has started, the producer's credits (counter plus
\* queue_has_space in transit) plus the frames in flight equal BUFFER_SIZE.
C1_CreditInvariant ==
    started => credits + framesInFlight = BUFFER_SIZE

\* C2: the frames in flight never exceed BUFFER_SIZE, and imageQueue never
\* holds more than MAX_QUEUE_SIZE frames.
C2_BackpressureBound ==
    /\ framesInFlight <= BUFFER_SIZE
    /\ Len(imageQueue) <= MAX_QUEUE_SIZE

\* C3: the page has posted exactly one queue_has_space per frame fully
\* retired: none for a frame that is only enqueued or dequeued.
C3_OneNotifyPerRetiredFrame ==
    spaceSent = Cardinality(retired)

\* C4: the frames returned by queueGet, then those held in imageQueue, then
\* those in transit, are exactly the frames the worker posted, in order.
C4_Fifo ==
    consumed \o imageQueue \o imagesInTransit = posted

\* C4 witness: a rotation took a frame from a non-empty queue after the fill
\* receives were served as waiters, and frames are still queued behind it.
C4_Witness ==
    /\ lastOp = "rotate"
    /\ Len(consumed) = BUFFER_SIZE + 1
    /\ Len(imageQueue) > 0

\* C5: the i-th frame consumed in a session (from 0) has slotIdx i mod
\* BUFFER_SIZE, and the worker's slot counter has advanced once per frame.
C5_SlotCycle ==
    /\ \A i \in 1..Len(consumed) : consumed[i].slotIdx = (i - 1) % BUFFER_SIZE
    /\ slotIdx = nGenerated % BUFFER_SIZE

\* C5 witness: the consumer has gone once round the ring and further.
C5_Witness ==
    /\ Len(consumed) >= BUFFER_SIZE + 2
    /\ lastOp \in {"rotate", "putAnim"}

\* C6: no two frames in flight carry the same slotIdx.
C6_NoSlotTwiceInFlight ==
    \A f, g \in inFlight : f.seq # g.seq => f.slotIdx # g.slotIdx

\* C7: the worker has not posted frame k + 2 * BUFFER_SIZE (the third frame
\* for a slot, counting from frame k) while frame k is not yet retired.
C7_NoThirdFrameBeforeRetire ==
    \A i \in 1..Len(posted) :
        (\E j \in 1..Len(posted) : posted[j].seq = posted[i].seq + 2 * BUFFER_SIZE)
            => posted[i].seq \in retired

\* C8: every frame posted took one credit: the frames posted never exceed
\* BUFFER_SIZE plus the queue_has_space handled, the counter is never
\* negative, and posted plus counter equals BUFFER_SIZE plus handled.
C8_ProducerAccounting ==
    /\ queueSpaceAvailable >= 0
    /\ nPosted <= BUFFER_SIZE + spaceRecv
    /\ started => nPosted + queueSpaceAvailable = BUFFER_SIZE + spaceRecv

\* C8 witness: the worker sent a frame on a credit returned by the page.
C8_Witness ==
    /\ lastOp = "send"
    /\ nPosted > BUFFER_SIZE
    /\ spaceRecv > 0

\* C9: with BUFFER_SIZE frames posted and no queue_has_space handled the
\* next send suspends; a queue_has_space that finds a waiter resumes exactly
\* that one send, which posts one frame and leaves the counter unchanged;
\* and a frame is posted only on a credit taken or arriving in that step.
C9_BackpressureScenario ==
    [][ /\ (started /\ nPosted = BUFFER_SIZE /\ spaceRecv = 0
               /\ nGenerated' = nGenerated + 1)
           => /\ posted' = posted
              /\ Len(queueSpaceWaiters') = Len(queueSpaceWaiters) + 1
        /\ (Len(queueSpaceWaiters) > 0 /\ spaceRecv' = spaceRecv + 1)
           => /\ Len(posted') = nPosted + 1
              /\ Len(queueSpaceWaiters') = Len(queueSpaceWaiters) - 1
              /\ queueSpaceAvailable' = queueSpaceAvailable
        /\ (Len(posted') > nPosted)
           => /\ Len(posted') = nPosted + 1
              /\ \/ queueSpaceAvailable' = queueSpaceAvailable - 1
                 \/ /\ spaceRecv' = spaceRecv + 1
                    /\ queueSpaceAvailable' = queueSpaceAvailable
      ]_vars

\* C9 witness: the (BUFFER_SIZE + 1)-th frame was posted by the send that the
\* first queue_has_space resumed.
C9_Witness ==
    /\ lastOp = "resume"
    /\ nPosted = BUFFER_SIZE + 1
    /\ spaceRecv = 1

\* C10: a task that does Running tick work runs only when fillBuffer of the
\* current session has received and uploaded BUFFER_SIZE frames.
C10_FillingPrecedesRunning ==
    lastOp \in RunningOps => filled = BUFFER_SIZE

\* C11: an upload created at a rotation with rowsUploaded = 0 is advanced by
\* the animate calls in chunks that each start where the rows uploaded so far
\* end, the first at row 0, stay within the texture and end exactly at row H
\* when the upload completes; the upload is complete, with nothing logged, at
\* the call that finds t > 1.0; and for H = HP, steps = 10, starting at
\* t = 0.1, it is complete by the 10th call.
C11_UploadCoverage ==
    [][probe.case = "fresh" =>
         LET M == probe.M
             N == probe'.M
             done(X) == FreshUpload.seq \in X.retired
         IN  /\ M.pendingUpload.active =>
                  /\ N.chunk.seq = FreshUpload.seq
                  /\ N.chunk.from = M.pendingUpload.rowsUploaded
                  /\ N.chunk.from = IF M.chunk.seq = N.chunk.seq
                                    THEN M.chunk.from + M.chunk.rows ELSE 0
                  /\ N.chunk.rows >= 1
                  /\ N.chunk.from + N.chunk.rows <= M.g_tex_H
                  /\ done(N) <=> N.chunk.from + N.chunk.rows = M.g_tex_H
                  /\ ~done(N) => /\ N.pendingUpload.active
                                 /\ N.pendingUpload.rowsUploaded
                                      = N.chunk.from + N.chunk.rows
             /\ ~M.pendingUpload.active => N.chunk = M.chunk
             /\ N.lastOp \in {"rotate", "suspend"} => done(N) /\ ~N.violation
             /\ (M.g_tex_H = HP /\ M.steps = InitSteps /\ probe'.n >= InitSteps)
                    => done(N)
      ]_vars

\* C11 witness: for H = HP and steps = 10 the animate call that rotates, the
\* 11th after the rotation that created the upload, finds all HP rows uploaded.
C11_Witness ==
    /\ probe.case = "fresh"
    /\ probe.M.g_tex_H = HP
    /\ probe.M.steps = InitSteps
    /\ probe.M.lastOp = "suspend"
    /\ probe.n = InitSteps + 1
    /\ FreshUpload.seq \in probe.M.retired
    /\ probe.M.chunk.from + probe.M.chunk.rows = HP

\* C12: the rotation of animate never finds an upload pending ('Pending upload
\* not finished' is never logged), and no upload is replaced before it is
\* complete: every frame queueGet returned is fully uploaded or is the one
\* pending upload.
C12_NoPendingAtRotation ==
    /\ ~violation
    /\ \A i \in 1..Len(consumed) :
          \/ consumed[i].seq \in retired
          \/ pendingUpload.active /\ pendingUpload.seq = consumed[i].seq

\* C12 witness: the second rotation, after the steps slider was moved, takes a
\* frame while the upload the first rotation created is complete.
C12_Witness ==
    /\ lastOp = "rotate"
    /\ nSlides > 0
    /\ Len(consumed) = BUFFER_SIZE + 2
    /\ BUFFER_SIZE \in retired
    /\ pendingUpload.active

\* C13: when the body of if (t > 1.0) is entered with an upload still
\* pending, the violation is raised and animate does not proceed: it makes no
\* queueGet call (no frame dequeued, no waiter queued) and the pending upload
\* is left as it is.
C13_ViolationStopsRotation ==
    [][(probe.case = "forced" /\ probe.n = 0 /\ probe'.n = 1) =>
         /\ probe'.M.violation
         /\ probe'.M.consumed = probe.M.consumed
         /\ probe'.M.queueWaiters = probe.M.queueWaiters
         /\ probe'.M.imageQueue = probe.M.imageQueue
         /\ probe'.M.pendingUpload = probe.M.pendingUpload
      ]_vars

\* C14: while an upload is pending its rowsUploaded is between 0 and g_tex_H;
\* it is 0 until the first chunk and after each chunk it is the chunk's first
\* row plus the chunk's rows, so it never decreases; and no chunk, the last
\* one included, reaches beyond row g_tex_H.
C14_RowsWithinTexture ==
    /\ pendingUpload.active =>
          /\ 0 <= pendingUpload.rowsUploaded
          /\ pendingUpload.rowsUploaded <= g_tex_H
          /\ pendingUpload.rowsUploaded =
                IF chunk.seq = pendingUpload.seq THEN chunk.from + chunk.rows ELSE 0
    /\ chunk.from >= 0
    /\ chunk.rows >= 0
    /\ chunk.from + chunk.rows <= g_tex_H

\* C14 witness: after a reconfiguration to the smallest grid an upload is
\* more than half done.
C14_Witness ==
    /\ lastOp = "tick"
    /\ pendingUpload.active
    /\ pendingUpload.rowsUploaded > HP \div 2
    /\ session > 1
    /\ HG = 1

\* C15: before and after every step, restartWithGridSize included, nextTexIdx
\* is (currTexIdx + 1) mod BUFFER_SIZE, and a rotation makes the old
\* nextTexIdx the new currTexIdx.
C15_IndicesAdjacent ==
    [][/\ nextTexIdx = (currTexIdx + 1) % BUFFER_SIZE
       /\ nextTexIdx' = (currTexIdx' + 1) % BUFFER_SIZE
       /\ lastOp' \in {"rotate", "suspend"} => currTexIdx' = nextTexIdx
      ]_vars

\* C15 witness: in a session started by restartWithGridSize the third
\* rotation has brought currTexIdx round to 0.
C15_Witness ==
    /\ lastOp = "rotate"
    /\ session > 1
    /\ Len(consumed) >= 2 * BUFFER_SIZE
    /\ currTexIdx = 0
    /\ nextTexIdx = 1

\* C16: t is set to 0 by a rotation and by no other task of a session; an
\* animate call that completes adds dt to t once (a call that rotates
\* leaves t = dt, at once or when its queueGet returns); a call rotates
\* only with t at or above 1.0 and goes without rotating only with t at or
\* below it; and with dt unchanged since the previous rotation, a rotation
\* comes at the call that finds t = (steps + 1) * dt, steps + 1 calls after
\* the previous one.
C16_AnimationClock ==
    [][/\ (t' = 0 /\ t # 0) => lastOp' = "suspend"
       /\ lastOp' = "tick" => (t' = t + dt /\ t <= TUnit)
       /\ lastOp' = "rotate" => (t' = dt /\ t >= TUnit)
       /\ lastOp' = "suspend" => (t' = 0 /\ t >= TUnit)
       /\ lastOp' = "putAnim" => (t = 0 /\ t' = dt)
       /\ lastOp' \notin {"tick", "rotate", "suspend", "putAnim"} => t' = t
       /\ (lastOp' \in {"rotate", "suspend"} /\ tPure /\ Len(consumed) > BUFFER_SIZE)
             => t = (steps + 1) * dt
      ]_vars

\* C17: render() is called by the animate calls that tick, rotate or resume
\* from queueGet, right before t += dt; the t it passes to the shader is
\* between 0 and 1.0, wherever in a transition the steps slider was moved.
C17_BlendFactorInRange ==
    lastOp \in {"tick", "rotate", "putAnim"} =>
        /\ 0 <= t - dt
        /\ t - dt <= TUnit

\* C17 witness: after a slider move an animate call rendered with t on the
\* boundary 1.0 and did not rotate.
C17_Witness ==
    /\ lastOp = "tick"
    /\ nSlides > 0
    /\ t - dt = TUnit

\* C18: processProgressiveUpload called with no upload pending leaves the
\* page as it was: pendingUpload, t, the indices, imageQueue, the rows
\* written to the slots and the messages posted to the worker.
C18_IdleUploadNoOp ==
    [][(probe.case = "idle" /\ probe.n = 0 /\ probe'.n = 1) =>
         /\ ~probe.M.pendingUpload.active
         /\ probe'.M = probe.M
      ]_vars

\* C18 witness: the call was made on a page with no upload pending.
C18_Witness ==
    /\ probe.case = "idle"
    /\ probe.n = 1
    /\ probe.M.pendingUpload = NoUpload
    /\ probe.M.chunk = NoChunk
    /\ probe.M.t = dtOf(probe.M.steps)

\* C19: the frame a rotation dequeues names the slot nextTexIdx,
\* be it nextTexIdx as the rotation found it (currTexIdx afterwards) or as
\* the rotation left it.
C19_SlotEqualsNext ==
    lastOp \in {"rotate", "putAnim"} =>
        pendingUpload.slotIdx \in {nextTexIdx, currTexIdx}

\* C20: once the page has handled an 'error' message of its worker it makes
\* no further queueGet call: the calls made so far, those that returned a
\* frame and those suspended, do not grow in number.
C20_NoReceiveAfterError ==
    [][(errorSeen /\ errorSeen') =>
         Len(consumed') + Len(queueWaiters') <= Len(consumed) + Len(queueWaiters)
      ]_vars

\* C21: once the worker has posted an 'error' message, from init or from
\* generateImage, it posts no further 'image' message.
C21_ErrorIsTerminal ==
    [][nErrors > 0 => Len(posted') <= Len(posted)]_vars

inTransit == {toWorker[i] : i \in 1..Len(toWorker)} \cup {toMain[i] : i \in 1..Len(toMain)}

\* frames the page holds or has taken, and those the worker holds back
framesHeld ==
    {consumed[i] : i \in 1..Len(consumed)}
    \cup {imageQueue[i] : i \in 1..Len(imageQueue)}
    \cup {queueSpaceWaiters[i] : i \in 1..Len(queueSpaceWaiters)}

\* C23: when restartWithGridSize finishes, imageQueue and queueWaiters are
\* empty, no upload is pending, (t, currTexIdx, nextTexIdx) is (0, 0, 1) and
\* there are BUFFER_SIZE textures and BUFFER_SIZE PBOs; the worker's credit
\* count is BUFFER_SIZE when it has handled start_generating; and at no time
\* is a frame or a message of an earlier session held, in transit or taken.
C23_FullReset ==
    /\ lastOp = "restartFinish" =>
          /\ imageQueue = <<>>
          /\ queueWaiters = <<>>
          /\ ~pendingUpload.active
          /\ t = 0
          /\ currTexIdx = 0
          /\ nextTexIdx = 1
          /\ textures = BUFFER_SIZE
          /\ pbos = BUFFER_SIZE
    /\ lastOp = "start" => queueSpaceAvailable = BUFFER_SIZE
    /\ \A m \in inTransit : m.ses = session
    /\ \A f \in framesHeld : f.ses = session

\* C23 witness: restartWithGridSize finishes while the rotation of the
\* session it ends is suspended in queueGet, that session having taken
\* frames and returned credits.
C23_Witness ==
    /\ lastOp = "restartFinish"
    /\ session = 2
    /\ animPc = "await"
    /\ textures = BUFFER_SIZE

\* C24: whatever the state restartWithGridSize was triggered in, the page
\* can go on to render: its animate chain, the one caller of render(), is
\* scheduled as an animation frame callback or is suspended in a queueGet
\* whose waiter is in queueWaiters, to be resumed by the next frame.
C24_AnimateSurvivesRestart ==
    worker =>
        \/ animPc = "raf"
        \/ /\ animPc = "await"
           /\ \E i \in 1..Len(queueWaiters) : queueWaiters[i].kind = "anim"

\* sequence a is the beginning of sequence b
IsPrefix(a, b) == Len(a) <= Len(b) /\ SubSeq(b, 1, Len(a)) = a

\* tasks in which queuePut ran
PutOps == {"putFill", "putAnim", "putQueued"}

\* what C25 says of one step: a queueGet on the empty queue (that of a
\* rotation, or the first of fillBuffer) takes nothing and queues its
\* waiter; while a call is suspended imageQueue is empty; and a frame
\* delivered while calls are suspended resumes the oldest of them with that
\* very frame, which is not left in imageQueue.
receiveStep ==
    /\ lastOp' = "suspend" =>
          /\ imageQueue = <<>>
          /\ consumed' = consumed
          /\ queueWaiters' = Append(queueWaiters, [kind |-> "anim", i |-> 0])
    /\ (lastOp' = "ready" /\ imageQueue = <<>>) =>
          /\ consumed' = consumed
          /\ queueWaiters' = Append(queueWaiters, [kind |-> "fill", i |-> 0])
    /\ queueWaiters # <<>> => imageQueue = <<>>
    /\ queueWaiters' # <<>> => imageQueue' = <<>>
    /\ (lastOp' \in PutOps /\ queueWaiters # <<>>) =>
          /\ lastOp' # "putQueued"
          /\ (lastOp' = "putAnim") = (Head(queueWaiters).kind = "anim")
          /\ consumed' = Append(consumed, Frame(Head(toMain)))
          /\ imageQueue' = <<>>
          /\ IsPrefix(Tail(queueWaiters), queueWaiters')

\* C25: receiveStep holds of every step, and a suspended queueGet stays in
\* queueWaiters until a delivered frame resumes it, so that every suspended
\* call returns when frames keep being delivered.
C25_SuspendedReceiveReturns ==
    [][/\ receiveStep
       /\ \/ IsPrefix(queueWaiters, queueWaiters')
          \/ /\ lastOp' \in {"putFill", "putAnim"}
             /\ IsPrefix(Tail(queueWaiters), queueWaiters')
      ]_vars

\* C25 amended: receiveStep holds of every step, and a suspended queueGet
\* stays in queueWaiters until a delivered frame resumes it or
\* restartWithGridSize replaces queueWaiters by an empty array, after which
\* that call never returns.
C25_SuspendedUntilFrameOrReset ==
    [][/\ receiveStep
       /\ \/ IsPrefix(queueWaiters, queueWaiters')
          \/ /\ lastOp' \in {"putFill", "putAnim"}
             /\ IsPrefix(Tail(queueWaiters), queueWaiters')
          \/ /\ lastOp' = "restartFinish"
             /\ queueWaiters' = <<>>
      ]_vars

\* C25 witness: in a session built by restartWithGridSize the frame just
\* delivered resumed the animate call suspended at a rotation.
C25_Witness ==
    /\ lastOp = "putAnim"
    /\ session > 1
    /\ imageQueue = <<>>
    /\ queueWaiters = <<>>
    /\ Len(consumed) = BUFFER_SIZE + 1

\* start_generating messages in transit to the worker
startsInTransit ==
    Len(SelectSeq(toWorker, LAMBDA m : m.type = "start_generating"))

\* continuousGenerate loops of the worker: inside generateImage or suspended
\* in waitToSend
loops == generating + Len(queueSpaceWaiters)

\* C26: in every session the page posts start_generating once, when it
\* handles 'ready', and never again; until the worker has handled it the
\* worker has generated and posted nothing and runs no continuousGenerate
\* loop; handling it sets the credit count to BUFFER_SIZE; and from then on
\* exactly one loop runs.
C26_InitialCreditsOnce ==
    /\ startsInTransit + (IF started THEN 1 ELSE 0) = (IF isReady THEN 1 ELSE 0)
    /\ ~started => /\ loops = 0
                   /\ nGenerated = 0
                   /\ posted = <<>>
                   /\ queueSpaceAvailable = 0
                   /\ spaceRecv = 0
                   /\ \A i \in 1..Len(toMain) : toMain[i].type # "image"
    /\ started => loops = 1
    /\ lastOp = "start" => queueSpaceAvailable = BUFFER_SIZE

\* C26 witness: the worker of a session built by restartWithGridSize has
\* just handled its start_generating.
C26_Witness ==
    /\ lastOp = "start"
    /\ session > 1
    /\ started
    /\ generating = 1
    /\ startsInTransit = 0

\* the pendingUpload animate constructs for the dequeued frame f
uploadOf(f) ==
    [active |-> TRUE, slotIdx |-> f.slotIdx, pboIdx |-> f.slotIdx,
     rowsUploaded |-> 0, seq |-> f.seq]

\* C27: an animate call that rotates makes one queueGet: it takes one frame,
\* or queues one waiter and takes the frame when resumed; on the return of
\* the queueGet pendingUpload is the upload of the frame taken, with
\* rowsUploaded = 0 and slotIdx and pboIdx both the frame's slotIdx; no other
\* step creates an upload or retargets one; and an upload is cleared only by
\* processProgressiveUpload, when its last rows are in, or by
\* restartWithGridSize.
C27_OneUploadPerRotation ==
    [][/\ lastOp' = "rotate" =>
             /\ consumed' = Append(consumed, Head(imageQueue))
             /\ queueWaiters' = queueWaiters
             /\ pendingUpload' = uploadOf(Head(imageQueue))
       /\ lastOp' = "suspend" =>
             /\ consumed' = consumed
             /\ Len(queueWaiters') = Len(queueWaiters) + 1
             /\ ~pendingUpload'.active
       /\ lastOp' = "putAnim" =>
             /\ consumed' = Append(consumed, Frame(Head(toMain)))
             /\ Len(queueWaiters') = Len(queueWaiters) - 1
             /\ pendingUpload' = uploadOf(Frame(Head(toMain)))
       /\ (pendingUpload'.active /\ lastOp' \notin {"rotate", "putAnim"}) =>
             /\ pendingUpload.active
             /\ pendingUpload'.seq = pendingUpload.seq
             /\ pendingUpload'.slotIdx = pendingUpload.slotIdx
             /\ pendingUpload'.pboIdx = pendingUpload.pboIdx
       /\ (pendingUpload.active /\ ~pendingUpload'.active) =>
             \/ /\ lastOp' \in {"tick", "suspend"}
                /\ pendingUpload.seq \in retired'
                /\ chunk'.from + chunk'.rows = g_tex_H
             \/ lastOp' = "restartFinish"
       /\ (pendingUpload.active /\ lastOp' = "rotate") =>
             /\ pendingUpload.seq \in retired'
             /\ chunk'.from + chunk'.rows = g_tex_H
      ]_vars

\* C27 witness: the second rotation found a frame queued and made it the
\* pending upload, for slot 1 and PBO 1.
C27_Witness ==
    /\ lastOp = "rotate"
    /\ Len(consumed) = BUFFER_SIZE + 2
    /\ pendingUpload.active
    /\ pendingUpload.rowsUploaded = 0
    /\ pendingUpload.slotIdx = 1
    /\ pendingUpload.pboIdx = 1

\* C28: the page and the worker never wait for each other: it does not
\* happen that a queueGet is suspended on the empty imageQueue while a
\* continuousGenerate loop is suspended in waitToSend with
\* queueSpaceAvailable = 0 and neither a frame nor a queue_has_space is in
\* transit.
C28_NoFlowControlDeadlock ==
    ~ /\ queueWaiters # <<>>
      /\ imageQueue = <<>>
      /\ queueSpaceWaiters # <<>>
      /\ queueSpaceAvailable = 0
      /\ \A m \in inTransit : m.type \notin {"image", "queue_has_space"}

\* C28 witness: the rotation is suspended in queueGet on the empty queue
\* while the worker, all its credits spent, is suspended in waitToSend; a
\* queue_has_space in transit is what will release them.
C28_Witness ==
    /\ queueWaiters # <<>>
    /\ imageQueue = <<>>
    /\ queueSpaceWaiters # <<>>
    /\ queueSpaceAvailable = 0
    /\ \E i \in 1..Len(toWorker) : toWorker[i].type = "queue_has_space"
    /\ toMain = <<>>

\* C29: at every render() call (made by the animate calls that tick, rotate
\* or resume from queueGet) the slot of a pending upload is neither
\* currTexIdx nor nextTexIdx, the two slots the shader samples.
C29_NoSamplingOfUploadTarget ==
    (lastOp \in {"tick", "rotate", "putAnim"} /\ pendingUpload.active) =>
        pendingUpload.slotIdx \notin {currTexIdx, nextTexIdx}

\* C30: at a rotation the frame dequeued at the rotation before, the one
\* the uploads since then were for, is in the slot that becomes nextTexIdx,
\* and the slot that was nextTexIdx becomes currTexIdx, so that the frame is
\* next at the following rotation and current at the one after; and
\* processProgressiveUpload writes rows into a slot only while the slot is
\* neither currTexIdx nor nextTexIdx.
C30_DisplayedBeforeReuse ==
    [][/\ (lastOp' \in {"rotate", "suspend"} /\ chunk'.seq >= 0) =>
             /\ \E i \in 1..Len(consumed) :
                   /\ consumed[i].seq = chunk'.seq
                   /\ consumed[i].slotIdx = nextTexIdx'
             /\ currTexIdx' = nextTexIdx
       /\ (lastOp' \in {"tick", "rotate", "suspend"} /\ pendingUpload.active) =>
             pendingUpload.slotIdx \notin {currTexIdx, nextTexIdx}
      ]_vars

\* C31: at most one queueGet is outstanding, that of fillBuffer or that of
\* the one animate call suspended at a rotation, and while animate is
\* suspended no animation frame callback is scheduled: queueWaiters never
\* holds more than one waiter, and it holds none of animate unless the
\* animate chain is suspended.
C31_SingleConsumer ==
    /\ Len(queueWaiters) <= 1
    /\ \A i \in 1..Len(queueWaiters) :
          queueWaiters[i].kind = "anim" => animPc = "await"

\* C32: whatever the texture height and however the steps slider is moved
\* while an upload is pending, every processProgressiveUpload call writes at
\* least one row, starting where the rows uploaded end; a call that computes
\* Math.floor((1.0 - t) / dt) <= 1 writes all the rows left; and a call that
\* goes on to the rotation finds no upload pending.
C32_UploadFinishesInTime ==
    [][(probe.case = "fresh" /\ probe'.n = probe.n + 1
           /\ probe.M.pendingUpload.active) =>
         LET M == probe.M
             N == probe'.M
             rowsLeft == M.g_tex_H - M.pendingUpload.rowsUploaded
         IN  /\ N.chunk.seq = M.pendingUpload.seq
             /\ N.chunk.from = M.pendingUpload.rowsUploaded
             /\ N.chunk.rows >= 1
             /\ N.chunk.rows <= rowsLeft
             /\ \E r \in Roundings(M) :
                   /\ N = animateTick(M, r)
                   /\ floorFrames(M, r) <= 1 =>
                         /\ N.chunk.rows = rowsLeft
                         /\ M.pendingUpload.seq \in N.retired
                   /\ exceedsOne(M, r) => floorFrames(M, r) <= 1
             /\ N.lastOp \in {"rotate", "suspend"} =>
                   /\ ~N.violation
                   /\ M.pendingUpload.seq \in N.retired
      ]_vars

\* C32 witness: on a texture of HP rows the slider was moved while the
\* upload was pending, and the call that rotates wrote the rows left, more
\* than one.
C32_Witness ==
    /\ probe.case = "fresh"
    /\ nSlides > 0
    /\ probe.M.g_tex_H = HP
    /\ probe.M.lastOp = "suspend"
    /\ probe.M.chunk.seq = FreshUpload.seq
    /\ probe.M.chunk.rows > 1
    /\ probe.M.chunk.from > 0
    /\ probe.M.chunk.from + probe.M.chunk.rows = HP
    /\ ~probe.M.violation

\* C33: queueSpaceAvailable stays within 0..BUFFER_SIZE (while the producer
\* still has frames to generate); whenever the producer is suspended in
\* waitToSend the counter is 0; and a queue_has_space that arrives then wakes
\* the oldest waiter, whose frame is posted, and leaves the counter alone.
C33_CreditRange ==
    [][/\ nGenerated' < frameCap => queueSpaceAvailable' \in 0..BUFFER_SIZE
       /\ queueSpaceWaiters' # <<>> => queueSpaceAvailable' = 0
       /\ (queueSpaceWaiters # <<>> /\ spaceRecv' = spaceRecv + 1) =>
             /\ queueSpaceWaiters' = Tail(queueSpaceWaiters)
             /\ posted' = Append(posted, Head(queueSpaceWaiters))
             /\ UNCHANGED queueSpaceAvailable
      ]_vars

\* C34: with constant steps >= 2, on an upload that starts at t = dt with no
\* row uploaded, no tick writes more than floor(H / (steps - 1)) + 1 rows
\* and no tick writes more rows than the tick before it.
C34_BoundedUploadWork ==
    [][(probe.case = "fresh" /\ probe'.n = probe.n + 1
           /\ probe.M.steps >= 2 /\ probe.M.pendingUpload.active) =>
         LET M == probe.M
             N == probe'.M
         IN  /\ N.chunk.seq = M.pendingUpload.seq
             /\ N.chunk.rows <= (M.g_tex_H \div (M.steps - 1)) + 1
             /\ (probe.n >= 1 /\ M.chunk.seq = M.pendingUpload.seq) =>
                   N.chunk.rows <= M.chunk.rows
      ]_vars

\* C35: after every handler imageQueue and queueWaiters are not both
\* non-empty; queueWaiters grows only by one resolver, pushed while imageQueue
\* is empty and nothing was taken; and a queuePut that finds a waiter removes
\* the oldest one and hands it the frame at the head of the queue, which is
\* the frame just put, so that frame is not left queued.
C35_QueueWaiterExclusion ==
    [][/\ ~(imageQueue' # <<>> /\ queueWaiters' # <<>>)
       /\ Len(queueWaiters') > Len(queueWaiters) =>
             /\ imageQueue = <<>>
             /\ consumed' = consumed
             /\ Len(queueWaiters') = Len(queueWaiters) + 1
             /\ IsPrefix(queueWaiters, queueWaiters')
       /\ (lastOp' \in PutOps /\ toMain' = Tail(toMain)) =>
             IF queueWaiters = <<>>
             THEN /\ lastOp' = "putQueued"
                  /\ imageQueue' = Append(imageQueue, Frame(Head(toMain)))
                  /\ UNCHANGED <<queueWaiters, consumed>>
             ELSE /\ lastOp' = (IF Head(queueWaiters).kind = "anim"
                                 THEN "putAnim" ELSE "putFill")
                  /\ consumed' = Append(consumed, Frame(Head(toMain)))
                  /\ Len(queueWaiters') \in
                        {Len(queueWaiters) - 1, Len(queueWaiters)}
                  /\ \A i \in 2..Len(queueWaiters) :
                        queueWaiters'[i - 1] = queueWaiters[i]
      ]_vars

\* C35 witness: queuePut handed the second frame to the waiter of fillBuffer,
\* and fillBuffer registered its next waiter on the empty queue.
C35_Witness ==
    /\ lastOp = "putFill"
    /\ imageQueue = <<>>
    /\ queueWaiters = <<[kind |-> "fill", i |-> 2]>>
    /\ Len(consumed) = 2
    /\ filled = 2

\* C36: a load_dataset received while continuousGenerate runs never leaves
\* the worker with a continuousGenerate loop going round on generateImage
\* returning null: whenever a loop is running (not suspended in waitToSend)
\* the worker is initialized, so every message that is queued for it
\* (set_grid, queue_has_space) can still be handled.
C36_WorkerStaysResponsive ==
    nLoads > 0 => ~spinning

====
